---- MODULE Spec2Model ----
(***************************************************************************)
(* draftjs-filters: the filtering passes of src/lib/normalize.js and       *)
(* src/lib/filters/entities.js over a Draft.js content state.              *)
(*                                                                         *)
(* A content state is a block map (an OrderedMap from block key to block)  *)
(* and an entity map.  The block map is a function over 1..n: a block's    *)
(* key is its position, which no pass changes.  The result of              *)
(* blockMap.filter(..) is a function over the subset of the keys it keeps. *)
(* A block is [type, depth, text, characterList]; a character is           *)
(* [style, entity] (CharacterMetadata).                                    *)
(***************************************************************************)
EXTENDS Integers, Sequences, FiniteSets, TLC

VARIABLES
    doc,            \* editorState.getCurrentContent().getBlockMap()
    entityMap,      \* the content's entities: key -> [type, data]
    entityTypes,    \* the caller's entityTypes array (filterEditorState's argument)
    entityTypes0,   \* history: the caller's array as it was before any call
    cfg,            \* the caller's other arguments
    call,           \* history: the last call, its arguments and its input
    calls,          \* number of filterEditorState calls made
    content,        \* applyContentWithSelection: the content before filtering
    nextContent,    \* applyContentWithSelection: the content after filtering
    selection       \* editorState.getSelection()

vars == <<doc, entityMap, entityTypes, entityTypes0, cfg, call, calls,
          content, nextContent, selection>>

----------------------------------------------------------------------------
(* Constants of the source *)

UNSTYLED == "unstyled"

ATOMIC == "atomic"

IMAGE == "IMAGE"

HORIZONTAL_RULE == "HORIZONTAL_RULE"

LINK == "LINK"

HEADER_ONE == "header-one"

BOLD == "BOLD"

\* char.getEntity() of a character without entity
NoEntity == "null"

\* getKeyAfter of the last key, find() without a match
NoKey == "undefined"

----------------------------------------------------------------------------
(* Bounds *)

MaxBlocks == 2

MaxLen == 1

MaxDepth == 1

MaxCalls == 2

MaxSelBlocks == 4

MaxTextLen == 1

----------------------------------------------------------------------------
(* Draft.js and Immutable.js accessors the passes use *)

\* Array.prototype.includes
includes(arr, x) == \E i \in 1..Len(arr) : arr[i] = x

\* OrderedMap.filter: the entries the predicate keeps, under their keys;
\* kept is the set of the keys whose entry satisfies the predicate
filter(m, kept) == [k \in kept |-> m[k]]

\* OrderedMap.merge with entries whose keys are all keys of m: the order of
\* m is kept and the entries of c replace those of m
merge(m, c) == [k \in DOMAIN m |-> IF k \in DOMAIN c THEN c[k] ELSE m[k]]

\* OrderedMap.size
size(m) == Cardinality(DOMAIN m)

\* block.getEntityAt(0): null when the block has no character
getEntityAt0(block) ==
    IF Len(block.characterList) >= 1 THEN block.characterList[1].entity ELSE NoEntity

\* block.getInlineStyleAt(0): the empty set when the block has no character
getInlineStyleAt0(block) ==
    IF Len(block.characterList) >= 1 THEN block.characterList[1].style ELSE {}

\* content.getEntity(entityKey).getType()
getType(entities, entityKey) == entities[entityKey].type

\* List.slice(0, 1)
slice01(list) == IF Len(list) >= 1 THEN <<list[1]>> ELSE <<>>

----------------------------------------------------------------------------
(* src/lib/normalize.js *)

preserveAtomicBlocks(blockMap, entities, types) ==
    LET keep(block) ==
            LET entityKey == getEntityAt0(block)
            IN  entityKey # NoEntity /\ includes(types, getType(entities, entityKey))
        filtered == filter(blockMap, {k \in DOMAIN blockMap : keep(blockMap[k])})
        perservedBlocks == [k \in DOMAIN filtered |-> [filtered[k] EXCEPT !.type = ATOMIC]]
    IN  IF size(perservedBlocks) # 0 THEN merge(blockMap, perservedBlocks) ELSE blockMap

resetBlockDepth(blockMap, maxListNesting) ==
    LET filtered == filter(blockMap, {k \in DOMAIN blockMap :
                                        blockMap[k].depth > maxListNesting})
        changedBlocks == [k \in DOMAIN filtered |->
                            [filtered[k] EXCEPT !.depth = maxListNesting]]
    IN  IF size(changedBlocks) # 0 THEN merge(blockMap, changedBlocks) ELSE blockMap

\* resetBlockType that resets no block
resetBlockType_noReset(blockMap, enabledTypes) == blockMap

resetBlockType(blockMap, enabledTypes) ==
    LET filtered == filter(blockMap, {k \in DOMAIN blockMap :
                                        ~includes(enabledTypes, blockMap[k].type)})
        changedBlocks == [k \in DOMAIN filtered |-> [filtered[k] EXCEPT !.type = UNSTYLED]]
    IN  IF size(changedBlocks) # 0 THEN merge(blockMap, changedBlocks) ELSE blockMap

filterInlineStyle(blockMap, enabledTypes) ==
    LET newChar(char) ==
            [char EXCEPT !.style = {type \in char.style : includes(enabledTypes, type)}]
        chars(block) == [i \in DOMAIN block.characterList |-> newChar(block.characterList[i])]
        blocks == [k \in DOMAIN blockMap |->
                      [blockMap[k] EXCEPT !.characterList = chars(blockMap[k])]]
    IN  merge(blockMap, blocks)

\* the normalised block of lines 157-175: the text " " and the first
\* character, if there is one, without its styles
normalisedBlock(block) ==
    LET sliced == slice01(block.characterList)
        chars == [i \in DOMAIN sliced |-> [sliced[i] EXCEPT !.style = {}]]
    IN  [block EXCEPT !.text = <<" ">>, !.characterList = chars]

\* the normalisedBlocks of lines 151-175
normalisedBlocks(blockMap) ==
    LET malformed(block) ==
            /\ block.type = ATOMIC
            /\ (block.text # <<" ">> \/ getInlineStyleAt0(block) # {})
        filtered == filter(blockMap, {k \in DOMAIN blockMap : malformed(blockMap[k])})
    IN  [k \in DOMAIN filtered |-> normalisedBlock(filtered[k])]

\* resetAtomicBlocks that also resets the atomic blocks without entity
resetAtomicBlocks_resetNoEntity(blockMap, entities, enabledTypes) ==
    LET normalised == normalisedBlocks(blockMap)
        blocks1 == IF size(normalised) # 0 THEN merge(blockMap, normalised) ELSE blockMap
        shouldReset(block) ==
            LET entityKey == getEntityAt0(block)
            IN  \/ entityKey = NoEntity
                \/ ~includes(enabledTypes, getType(entities, entityKey))
        filtered == filter(blocks1, {k \in DOMAIN blocks1 :
                                        blocks1[k].type = ATOMIC /\ shouldReset(blocks1[k])})
        resetBlocks == [k \in DOMAIN filtered |-> [filtered[k] EXCEPT !.type = UNSTYLED]]
        blocks2 == IF size(resetBlocks) # 0 THEN merge(blockMap, resetBlocks) ELSE blocks1
    IN  merge(blockMap, blocks2)

resetAtomicBlocks(blockMap, entities, enabledTypes) ==
    LET normalised == normalisedBlocks(blockMap)
        blocks1 == IF size(normalised) # 0 THEN merge(blockMap, normalised) ELSE blockMap
        shouldReset(block) ==
            LET entityKey == getEntityAt0(block)
            IN  /\ entityKey # NoEntity
                /\ ~includes(enabledTypes, getType(entities, entityKey))
        filtered == filter(blocks1, {k \in DOMAIN blocks1 :
                                        blocks1[k].type = ATOMIC /\ shouldReset(blocks1[k])})
        resetBlocks == [k \in DOMAIN filtered |-> [filtered[k] EXCEPT !.type = UNSTYLED]]
        \* line 198 merges resetBlocks into blockMap, not into blocks
        blocks2 == IF size(resetBlocks) # 0 THEN merge(blockMap, resetBlocks) ELSE blocks1
    IN  merge(blockMap, blocks2)

\* filterEntityType without the special case for images
filterEntityType_noImageCase(blockMap, entities, enabledTypes) ==
    LET newChar(char) ==
            IF /\ char.entity # NoEntity
               /\ ~includes(enabledTypes, getType(entities, char.entity))
            THEN [char EXCEPT !.entity = NoEntity]
            ELSE char
        chars(block) == [i \in DOMAIN block.characterList |-> newChar(block.characterList[i])]
        blocks == [k \in DOMAIN blockMap |->
                      [blockMap[k] EXCEPT !.characterList = chars(blockMap[k])]]
    IN  merge(blockMap, blocks)

filterEntityType(blockMap, entities, enabledTypes) ==
    LET newChar(char, blockType) ==
            LET entityKey == char.entity
                entityType == getType(entities, entityKey)
                shouldFilter == ~includes(enabledTypes, entityType)
                shouldFilterImage == entityType = IMAGE /\ blockType # ATOMIC
            IN  IF entityKey # NoEntity /\ (shouldFilter \/ shouldFilterImage)
                THEN [char EXCEPT !.entity = NoEntity]
                ELSE char
        chars(block) ==
            [i \in DOMAIN block.characterList |-> newChar(block.characterList[i], block.type)]
        blocks == [k \in DOMAIN blockMap |->
                      [blockMap[k] EXCEPT !.characterList = chars(blockMap[k])]]
    IN  merge(blockMap, blocks)

\* enabledEntityTypes is the caller's array itself (line 287); push (line 290)
\* appends to it
pushHorizontalRule(types, enableHorizontalRule) ==
    IF enableHorizontalRule THEN Append(types, HORIZONTAL_RULE) ELSE types

filterEditorState(blockMap, entities, maxListNesting, enableHorizontalRule, blockTypes, inlineStyles, types) ==
    LET enabledBlockTypes == blockTypes \o <<UNSTYLED, ATOMIC>>
        enabledEntityTypes == pushHorizontalRule(types, enableHorizontalRule)
        s1 == preserveAtomicBlocks(blockMap, entities, <<HORIZONTAL_RULE, IMAGE>>)
        s2 == resetBlockDepth(s1, maxListNesting)
        s3 == resetBlockType(s2, enabledBlockTypes)
        s4 == filterInlineStyle(s3, inlineStyles)
        s5 == resetAtomicBlocks(s4, entities, enabledEntityTypes)
    IN  filterEntityType(s5, entities, enabledEntityTypes)

----------------------------------------------------------------------------
(* src/lib/filters/entities.js: filterEntityAttributes *)

\* the keys of the entities some character of the content has (lines 167-175)
referencedEntities(blockMap) ==
    UNION {{blockMap[k].characterList[i].entity : i \in DOMAIN blockMap[k].characterList} :
              k \in DOMAIN blockMap} \ {NoEntity}

\* Array.prototype.find with (t) => t.type === type: the index of the first
\* match, 0 for undefined
find(enabledEntityTypes, type) ==
    IF \E i \in 1..Len(enabledEntityTypes) : enabledEntityTypes[i].type = type
    THEN CHOOSE i \in 1..Len(enabledEntityTypes) :
            /\ enabledEntityTypes[i].type = type
            /\ \A j \in 1..(i - 1) : enabledEntityTypes[j].type # type
    ELSE 0

\* whitelist.reduce (lines 184-191): the object built from the first n
\* attribute names of the whitelist
RECURSIVE reduceAttrs(_, _, _)
reduceAttrs(whitelist, data, n) ==
    IF n = 0 THEN <<>>
    ELSE LET attrs == reduceAttrs(whitelist, data, n - 1)
             attr == whitelist[n]
         IN  IF attr \in DOMAIN data
             THEN [a \in DOMAIN attrs \cup {attr} |-> IF a = attr THEN data[attr] ELSE attrs[a]]
             ELSE attrs

\* find(..).attributes of undefined throws (line 180)
filterEntityAttributesThrows(blockMap, entities, enabledEntityTypes) ==
    \E key \in referencedEntities(blockMap) :
        find(enabledEntityTypes, entities[key].type) = 0

\* filterEntityAttributes without the hasOwnProperty test: an attribute the
\* data does not have is copied as undefined
filterEntityAttributes_noOwnProperty(blockMap, entities, enabledEntityTypes) ==
    [key \in DOMAIN entities |->
        IF key \in referencedEntities(blockMap)
        THEN LET whitelist == enabledEntityTypes[find(enabledEntityTypes,
                                                      entities[key].type)].attributes
                 data == entities[key].data
             IN  [entities[key] EXCEPT
                    !.data = [a \in {whitelist[i] : i \in DOMAIN whitelist} |->
                                IF a \in DOMAIN data THEN data[a] ELSE "undefined"]]
        ELSE entities[key]]

filterEntityAttributes(blockMap, entities, enabledEntityTypes) ==
    [key \in DOMAIN entities |->
        IF key \in referencedEntities(blockMap)
        THEN LET whitelist == enabledEntityTypes[find(enabledEntityTypes,
                                                      entities[key].type)].attributes
             IN  [entities[key] EXCEPT
                    !.data = reduceAttrs(whitelist, entities[key].data, Len(whitelist))]
        ELSE entities[key]]

----------------------------------------------------------------------------
(* src/lib/filters/entities.js: applyContentWithSelection.  Here a content is *)
(* the sequence of its blocks [key, text].                                    *)

\* BlockMap.keySeq()
keySeq(blocks) == [i \in DOMAIN blocks |-> blocks[i].key]

\* content.getBlockForKey(key) is defined
hasBlockForKey(blocks, key) == \E i \in DOMAIN blocks : blocks[i].key = key

\* content.getBlockForKey(key)
getBlockForKey(blocks, key) == blocks[CHOOSE i \in DOMAIN blocks : blocks[i].key = key]

\* content.getKeyAfter(key): undefined after the last block and for a key
\* the content does not have
getKeyAfter(blocks, key) ==
    IF \E i \in 1..(Len(blocks) - 1) : blocks[i].key = key
    THEN blocks[(CHOOSE i \in 1..(Len(blocks) - 1) : blocks[i].key = key) + 1].key
    ELSE NoKey

\* selection.isCollapsed()
isCollapsed(sel) ==
    sel.anchorKey = sel.focusKey /\ sel.anchorOffset = sel.focusOffset

\* nextKeys.reverse().find(..) (lines 233-235): the last key whose successor
\* differs between the two contents
\* find(..) on the keys in their order, without reverse()
findNextAnchorKey_noReverse(blocks, nextBlocks) ==
    LET changed == {i \in DOMAIN nextBlocks :
                        getKeyAfter(blocks, nextBlocks[i].key)
                            # getKeyAfter(nextBlocks, nextBlocks[i].key)}
    IN  IF changed = {} THEN NoKey
        ELSE nextBlocks[CHOOSE i \in changed : \A j \in changed : i <= j].key

findNextAnchorKey(blocks, nextBlocks) ==
    LET changed == {i \in DOMAIN nextBlocks :
                        getKeyAfter(blocks, nextBlocks[i].key)
                            # getKeyAfter(nextBlocks, nextBlocks[i].key)}
    IN  IF changed = {} THEN NoKey
        ELSE nextBlocks[CHOOSE i \in changed : \A j \in changed : j <= i].key

applyContentWithSelection(sel, blocks, nextBlocks) ==
    LET shouldKeepSelection == ~isCollapsed(sel) \/ hasBlockForKey(nextBlocks, sel.anchorKey)
        nextAnchorKey == findNextAnchorKey(blocks, nextBlocks)
        blockEndOffset == Len(getBlockForKey(nextBlocks, nextAnchorKey).text)
    IN  IF shouldKeepSelection THEN sel
        ELSE IF nextAnchorKey # NoKey
             THEN [anchorKey |-> nextAnchorKey, focusKey |-> nextAnchorKey,
                   anchorOffset |-> blockEndOffset, focusOffset |-> blockEndOffset]
             ELSE sel

----------------------------------------------------------------------------
(* The documents, entities and arguments the passes are called with *)

\* The entities of the content: an image, a link and a horizontal rule
Registry ==
    [k \in {"1", "2", "3"} |->
        [type |-> CASE k = "1" -> IMAGE [] k = "2" -> LINK [] OTHER -> HORIZONTAL_RULE,
         data |-> <<>>]]

Chars == [style : SUBSET {BOLD}, entity : {NoEntity, "1", "2", "3"}]

\* a block's text and character list, of the same length
Contents ==
    UNION {[text : [1..n -> {" ", "a"}], characterList : [1..n -> Chars]] : n \in 0..MaxLen}

Blocks ==
    {[type |-> t, depth |-> d, text |-> c.text, characterList |-> c.characterList] :
        t \in {UNSTYLED, ATOMIC, HEADER_ONE}, d \in 0..MaxDepth, c \in Contents}

Docs == UNION {[1..n -> Blocks] : n \in 1..MaxBlocks}

EntityTypeLists == {<<>>, <<IMAGE>>, <<LINK>>, <<IMAGE, LINK>>}

Configs ==
    [maxListNesting : 0..MaxDepth,
     blockTypes : {<<>>, <<HEADER_ONE>>},
     inlineStyles : {<<>>, <<BOLD>>}]

NoCall ==
    [op |-> "none", input |-> <<>>, entities |-> <<>>, types |-> <<>>, flag |-> FALSE,
     threw |-> FALSE, selection |-> <<>>]

NoSelection ==
    [anchorKey |-> NoKey, anchorOffset |-> 0, focusKey |-> NoKey, focusOffset |-> 0]

Init ==
    /\ doc \in Docs
    /\ entityMap = Registry
    /\ entityTypes \in EntityTypeLists
    /\ entityTypes0 = entityTypes
    /\ cfg \in Configs
    /\ call = NoCall
    /\ calls = 0
    /\ content = <<>>
    /\ nextContent = <<>>
    /\ selection = NoSelection

Called(op, flag) ==
    [op |-> op, input |-> doc, entities |-> entityMap, types |-> entityTypes, flag |-> flag,
     threw |-> FALSE, selection |-> selection]

Frame == UNCHANGED <<entityMap, entityTypes0, cfg, content, nextContent, selection>>

PreserveAtomicBlocks ==
    /\ call.op = "none"
    /\ doc' = preserveAtomicBlocks(doc, entityMap, <<HORIZONTAL_RULE, IMAGE>>)
    /\ call' = Called("preserveAtomicBlocks", FALSE)
    /\ UNCHANGED <<entityTypes, calls>>
    /\ Frame

ResetBlockDepth ==
    /\ call.op = "none"
    /\ doc' = resetBlockDepth(doc, cfg.maxListNesting)
    /\ call' = Called("resetBlockDepth", FALSE)
    /\ UNCHANGED <<entityTypes, calls>>
    /\ Frame

ResetBlockType ==
    /\ call.op = "none"
    /\ doc' = resetBlockType(doc, cfg.blockTypes)
    /\ call' = Called("resetBlockType", FALSE)
    /\ UNCHANGED <<entityTypes, calls>>
    /\ Frame

FilterInlineStyle ==
    /\ call.op = "none"
    /\ doc' = filterInlineStyle(doc, cfg.inlineStyles)
    /\ call' = Called("filterInlineStyle", FALSE)
    /\ UNCHANGED <<entityTypes, calls>>
    /\ Frame

ResetAtomicBlocks ==
    /\ call.op = "none"
    /\ doc' = resetAtomicBlocks(doc, entityMap, entityTypes)
    /\ call' = Called("resetAtomicBlocks", FALSE)
    /\ UNCHANGED <<entityTypes, calls>>
    /\ Frame

FilterEntityType ==
    /\ call.op = "none"
    /\ doc' = filterEntityType(doc, entityMap, entityTypes)
    /\ call' = Called("filterEntityType", FALSE)
    /\ UNCHANGED <<entityTypes, calls>>
    /\ Frame

\* filterEditorState on the editor state the previous call returned, with the
\* same arguments apart from enableHorizontalRule
FilterEditorState(enableHorizontalRule) ==
    /\ call.op \in {"none", "filterEditorState"}
    /\ calls < MaxCalls
    /\ doc' = filterEditorState(doc, entityMap, cfg.maxListNesting, enableHorizontalRule,
                                cfg.blockTypes, cfg.inlineStyles, entityTypes)
    /\ entityTypes' = pushHorizontalRule(entityTypes, enableHorizontalRule)
    /\ call' = Called("filterEditorState", enableHorizontalRule)
    /\ calls' = calls + 1
    /\ Frame

Next ==
    \/ PreserveAtomicBlocks
    \/ ResetBlockDepth
    \/ ResetBlockType
    \/ FilterInlineStyle
    \/ ResetAtomicBlocks
    \/ FilterEntityType
    \/ \E enableHorizontalRule \in BOOLEAN : FilterEditorState(enableHorizontalRule)

Spec == Init /\ [][Next]_vars

----------------------------------------------------------------------------
(* filterEntityAttributes: contents, entities with data, and enabled entity *)
(* types with their attributes                                              *)

\* an entity's data: some of the attributes url and title, with their values
Datas ==
    UNION {{data \in [names -> {"x", "y"}] : \A a \in names : a = "title" => data[a] = "x"} :
              names \in SUBSET {"url", "title"}}

\* an image and a link, each with some data
AttrEntities ==
    {[k \in {"1", "2"} |-> [type |-> IF k = "1" THEN IMAGE ELSE LINK, data |-> d[k]]] :
        d \in [{"1", "2"} -> Datas]}

AttrBlocks ==
    {[type |-> UNSTYLED, depth |-> 0, text |-> [i \in DOMAIN l |-> "a"], characterList |-> l] :
        l \in UNION {[1..n -> [style : {{}}, entity : {NoEntity, "1", "2"}]] : n \in 0..MaxLen}}

AttrDocs == UNION {[1..n -> AttrBlocks] : n \in 1..MaxBlocks}

\* the attribute alt is in no entity's data
EnabledEntries == [type : {IMAGE, LINK}, attributes : {<<"url">>, <<"url", "alt">>}]

EnabledEntityTypes == UNION {[1..n -> EnabledEntries] : n \in 0..2}

InitAttrs ==
    /\ doc \in AttrDocs
    /\ entityMap \in AttrEntities
    /\ entityTypes \in EnabledEntityTypes
    /\ entityTypes0 = entityTypes
    /\ cfg = [maxListNesting |-> 0, blockTypes |-> <<>>, inlineStyles |-> <<>>]
    /\ call = NoCall
    /\ calls = 0
    /\ content = <<>>
    /\ nextContent = <<>>
    /\ selection = NoSelection

\* a throw leaves the caller without a new editor state: the entities stay
FilterEntityAttributes ==
    /\ call.op = "none"
    /\ IF filterEntityAttributesThrows(doc, entityMap, entityTypes)
       THEN /\ entityMap' = entityMap
            /\ call' = [Called("filterEntityAttributes", FALSE) EXCEPT !.threw = TRUE]
       ELSE /\ entityMap' = filterEntityAttributes(doc, entityMap, entityTypes)
            /\ call' = Called("filterEntityAttributes", FALSE)
    /\ UNCHANGED <<doc, entityTypes, entityTypes0, cfg, calls, content, nextContent,
                   selection>>

NextAttrs == FilterEntityAttributes

SpecAttrs == InitAttrs /\ [][NextAttrs]_vars

----------------------------------------------------------------------------
(* applyContentWithSelection: a content, the content left when some of its *)
(* blocks are removed, and a selection in the first                         *)

BlockKeys == <<"A", "B", "C", "D", "E", "F">>

SelContents ==
    UNION {{[i \in 1..n |-> [key |-> BlockKeys[i], text |-> [j \in 1..len[i] |-> "a"]]] :
                len \in [1..n -> 0..MaxTextLen]} : n \in 1..MaxSelBlocks}

\* the blocks of a content that are kept, in their order
RECURSIVE keepBlocks(_, _)
keepBlocks(blocks, kept) ==
    IF blocks = <<>> THEN <<>>
    ELSE IF Head(blocks).key \in kept
         THEN <<Head(blocks)>> \o keepBlocks(Tail(blocks), kept)
         ELSE keepBlocks(Tail(blocks), kept)

keys(blocks) == {blocks[i].key : i \in DOMAIN blocks}

Selections(blocks) ==
    {sel \in [anchorKey : keys(blocks), anchorOffset : 0..MaxTextLen,
              focusKey : keys(blocks), focusOffset : 0..MaxTextLen] :
        /\ sel.anchorOffset <= Len(getBlockForKey(blocks, sel.anchorKey).text)
        /\ sel.focusOffset <= Len(getBlockForKey(blocks, sel.focusKey).text)}

InitSel ==
    /\ content \in SelContents
    /\ \E kept \in SUBSET keys(content) : nextContent = keepBlocks(content, kept)
    /\ selection \in Selections(content)
    /\ doc = <<>>
    /\ entityMap = Registry
    /\ entityTypes = <<>>
    /\ entityTypes0 = <<>>
    /\ cfg = [maxListNesting |-> 0, blockTypes |-> <<>>, inlineStyles |-> <<>>]
    /\ call = NoCall
    /\ calls = 0

ApplyContentWithSelection ==
    /\ call.op = "none"
    /\ selection' = applyContentWithSelection(selection, content, nextContent)
    /\ call' = Called("applyContentWithSelection", FALSE)
    /\ UNCHANGED <<doc, entityMap, entityTypes, entityTypes0, cfg, calls, content,
                   nextContent>>

NextSel == ApplyContentWithSelection

SpecSel == InitSel /\ [][NextSel]_vars

----------------------------------------------------------------------------
(* Properties of the passes of normalize.js, under Spec *)

Returned(op) == call.op = op

\* the enabled block types filterEditorState passes on (line 281)
EnabledBlockTypes == cfg.blockTypes \o <<UNSTYLED, ATOMIC>>

Aligned(block) == Len(block.text) = Len(block.characterList)

AtomicShape(block) == Len(block.text) = 1 /\ getInlineStyleAt0(block) = {}

\* preserveAtomicBlocks makes the block atomic
Promoted(block) ==
    /\ getEntityAt0(block) # NoEntity
    /\ getType(entityMap, getEntityAt0(block)) \in {HORIZONTAL_RULE, IMAGE}

\* the entity at offset 0 is of a type that is not enabled
DisabledAt0(block, enabledTypes) ==
    /\ getEntityAt0(block) # NoEntity
    /\ ~includes(enabledTypes, getType(entityMap, getEntityAt0(block)))

\* C1: filterEditorState is idempotent: called again with the same arguments
\* on the editor state it returned, it returns the same blocks.
C1_Idempotent ==
    [][(/\ call.op = "filterEditorState"
        /\ call'.op = "filterEditorState"
        /\ calls' = calls + 1
        /\ call'.flag = call.flag) => doc' = doc]_vars

\* C2: every atomic block returned by filterEditorState or resetAtomicBlocks
\* has a text of length 1 whose character carries no style.
C2_AtomicShape ==
    (Returned("filterEditorState") \/ Returned("resetAtomicBlocks")) =>
        \A k \in DOMAIN doc : doc[k].type = ATOMIC => AtomicShape(doc[k])

\* C3: the blocks of the input have as many characters as their text is long
\* (Init), and so has every block each pass and filterEditorState return.
C3_Alignment ==
    ~Returned("none") => \A k \in DOMAIN doc : Aligned(doc[k])

\* C4: after filterEntityType every remaining entity is of an enabled type and
\* no image entity is left outside an atomic block; an entity is removed only
\* under one of these two rules, and nothing else of a block changes. The
\* first part holds of what filterEditorState returns too.
C4_EntityFilter ==
    /\ (Returned("filterEntityType") \/ Returned("filterEditorState")) =>
          \A k \in DOMAIN doc : \A i \in DOMAIN doc[k].characterList :
              LET e == doc[k].characterList[i].entity
              IN  e # NoEntity =>
                    /\ includes(entityTypes, getType(entityMap, e))
                    /\ ~(getType(entityMap, e) = IMAGE /\ doc[k].type # ATOMIC)
    /\ Returned("filterEntityType") =>
          /\ DOMAIN doc = DOMAIN call.input
          /\ \A k \in DOMAIN doc :
                LET in == call.input[k]
                    out == doc[k]
                IN  /\ out.type = in.type
                    /\ out.depth = in.depth
                    /\ out.text = in.text
                    /\ DOMAIN out.characterList = DOMAIN in.characterList
                    /\ \A i \in DOMAIN in.characterList :
                          LET c == in.characterList[i]
                              d == out.characterList[i]
                          IN  /\ d.style = c.style
                              /\ d.entity \in {c.entity, NoEntity}
                              /\ d.entity # c.entity =>
                                    \/ ~includes(call.types, getType(entityMap, c.entity))
                                    \/ (getType(entityMap, c.entity) = IMAGE /\ in.type # ATOMIC)

\* C4 witness: filterEntityType removed an enabled image entity from a block
\* that is not atomic, and kept another entity.
C4_Witness ==
    /\ Returned("filterEntityType")
    /\ includes(call.types, IMAGE)
    /\ \E k \in DOMAIN doc : \E i \in DOMAIN doc[k].characterList :
          /\ call.input[k].type # ATOMIC
          /\ call.input[k].characterList[i].entity = "1"
          /\ doc[k].characterList[i].entity = NoEntity
    /\ \E k \in DOMAIN doc : \E i \in DOMAIN doc[k].characterList :
          doc[k].characterList[i].entity # NoEntity

\* C7: filterEditorState leaves the caller's entityTypes array as it was, and
\* a call with enableHorizontalRule = false returns what it would return with
\* the array as the caller wrote it.
C7_InputsUnchanged ==
    /\ entityTypes = entityTypes0
    /\ (Returned("filterEditorState") /\ ~call.flag) =>
          doc = filterEditorState(call.input, entityMap, cfg.maxListNesting, FALSE,
                                  cfg.blockTypes, cfg.inlineStyles, entityTypes0)

\* C8: every block filterEditorState returns has a type among blockTypes,
\* unstyled and atomic; a block of such a type that is neither made atomic by
\* preserveAtomicBlocks nor reset by resetAtomicBlocks keeps its type.
C8_TypeWhitelist ==
    Returned("filterEditorState") =>
        /\ DOMAIN doc = DOMAIN call.input
        /\ \A k \in DOMAIN doc :
              LET in == call.input[k]
              IN  /\ includes(EnabledBlockTypes, doc[k].type)
                  /\ (/\ includes(EnabledBlockTypes, in.type)
                      /\ ~Promoted(in)
                      /\ ~(in.type = ATOMIC /\ DisabledAt0(in, entityTypes)))
                        => doc[k].type = in.type

\* C8 witness: filterEditorState reset a block of a type that is not enabled,
\* made a block atomic and left an enabled header-one block as it was.
C8_Witness ==
    /\ Returned("filterEditorState")
    /\ \E k \in DOMAIN doc :
          call.input[k].type = HEADER_ONE /\ doc[k].type = UNSTYLED
    /\ \E k \in DOMAIN doc :
          call.input[k].type # ATOMIC /\ doc[k].type = ATOMIC

\* C9 as claimed: resetAtomicBlocks makes unstyled, with the text " ", every
\* atomic block whose character at offset 0 has no entity or an entity of a
\* type that is not enabled, so every block it leaves atomic has at offset 0
\* an entity of an enabled type.
C9_DemotionClaimed ==
    Returned("resetAtomicBlocks") =>
        /\ \A k \in DOMAIN doc :
              (/\ call.input[k].type = ATOMIC
               /\ (getEntityAt0(call.input[k]) = NoEntity
                     \/ DisabledAt0(call.input[k], call.types)))
                => (doc[k].type = UNSTYLED /\ doc[k].text = <<" ">>)
        /\ \A k \in DOMAIN doc :
              doc[k].type = ATOMIC =>
                  /\ getEntityAt0(doc[k]) # NoEntity
                  /\ ~DisabledAt0(doc[k], call.types)

\* C9 amended: resetAtomicBlocks makes unstyled, with the text " ", exactly the
\* atomic blocks whose character at offset 0 has an entity of a type that is
\* not enabled; an atomic block without entity at offset 0 stays atomic, so
\* every block left atomic has at offset 0 no entity or an entity of an
\* enabled type.
C9_Demotion ==
    Returned("resetAtomicBlocks") =>
        /\ DOMAIN doc = DOMAIN call.input
        /\ \A k \in DOMAIN doc :
              LET in == call.input[k]
              IN  /\ (in.type = ATOMIC /\ DisabledAt0(in, call.types))
                        => (doc[k].type = UNSTYLED /\ doc[k].text = <<" ">>)
                  /\ ~(in.type = ATOMIC /\ DisabledAt0(in, call.types))
                        => doc[k].type = in.type
                  /\ getEntityAt0(doc[k]) = getEntityAt0(in)
        /\ \A k \in DOMAIN doc :
              doc[k].type = ATOMIC => ~DisabledAt0(doc[k], call.types)

\* C9 witness: resetAtomicBlocks reset an atomic block whose text was not " "
\* and whose entity is not enabled, and left atomic a block without entity.
C9_Witness ==
    /\ Returned("resetAtomicBlocks")
    /\ \E k \in DOMAIN doc :
          /\ call.input[k].type = ATOMIC
          /\ call.input[k].text # <<" ">>
          /\ DisabledAt0(call.input[k], call.types)
          /\ doc[k].type = UNSTYLED
    /\ \E k \in DOMAIN doc :
          /\ call.input[k].type = ATOMIC
          /\ getEntityAt0(call.input[k]) = NoEntity
          /\ doc[k].type = ATOMIC

----------------------------------------------------------------------------
(* Properties of filterEntityAttributes, under SpecAttrs *)

\* the attribute names the first entry of an entity type lists
AttributesOf(types, type) ==
    {types[find(types, type)].attributes[i] :
        i \in DOMAIN types[find(types, type)].attributes}

Referenced(key) ==
    \E k \in DOMAIN call.input : \E i \in DOMAIN call.input[k].characterList :
        call.input[k].characterList[i].entity = key

\* C5: when filterEntityAttributes returns, the data of every entity that a
\* character refers to is its former data restricted to the attributes its
\* type's entry lists: no other key, no key the data did not have, the values
\* as they were. Entities without reference and all blocks are unchanged.
C5_AttributeWhitelist ==
    (Returned("filterEntityAttributes") /\ ~call.threw) =>
        /\ doc = call.input
        /\ DOMAIN entityMap = DOMAIN call.entities
        /\ \A key \in DOMAIN entityMap :
              LET old == call.entities[key]
                  new == entityMap[key]
              IN  /\ new.type = old.type
                  /\ IF Referenced(key)
                     THEN /\ DOMAIN new.data =
                                DOMAIN old.data \cap AttributesOf(call.types, old.type)
                          /\ \A a \in DOMAIN new.data : new.data[a] = old.data[a]
                     ELSE new.data = old.data

\* C5 witness: filterEntityAttributes dropped the title of an entity and kept
\* its url, its entry listing alt too, and left alone an entity without
\* reference that has a title.
C5_Witness ==
    /\ Returned("filterEntityAttributes")
    /\ ~call.threw
    /\ \E key \in DOMAIN entityMap :
          /\ Referenced(key)
          /\ DOMAIN call.entities[key].data = {"url", "title"}
          /\ DOMAIN entityMap[key].data = {"url"}
          /\ "alt" \in AttributesOf(call.types, entityMap[key].type)
    /\ \E key \in DOMAIN entityMap :
          /\ ~Referenced(key)
          /\ "title" \in DOMAIN entityMap[key].data

----------------------------------------------------------------------------
(* Properties of applyContentWithSelection, under SpecSel *)

\* the block at index i of content is not in nextContent
Removed(i) == ~hasBlockForKey(nextContent, content[i].key)

\* index in content of the anchor block of the selection passed in
AnchorIndex == CHOOSE i \in DOMAIN content : content[i].key = call.selection.anchorKey

\* indexes of the blocks before the anchor block that are kept
KeptBefore == {i \in 1..(AnchorIndex - 1) : ~Removed(i)}

\* the kept block closest before the anchor block
Predecessor == CHOOSE i \in KeptBefore : \A j \in KeptBefore : j <= i

\* indexes of the kept blocks whose successor in content is removed
KeptBeforeRemoved == {i \in 1..(Len(content) - 1) : ~Removed(i) /\ Removed(i + 1)}

\* every block removed after the predecessor is in one run with the anchor
OneRunAfterPredecessor ==
    \A j \in (Predecessor + 1)..Len(content) :
        Removed(j) => \A m \in (Predecessor + 1)..j : Removed(m)

\* the collapsed selection at the end of the text of a block of nextContent
AtEndOf(key) ==
    [anchorKey |-> key, focusKey |-> key,
     anchorOffset |-> Len(getBlockForKey(nextContent, key).text),
     focusOffset |-> Len(getBlockForKey(nextContent, key).text)]

\* C6 as claimed: a collapsed selection whose anchor block is removed while a
\* block before it is kept moves to the end of the kept block closest before
\* the anchor block; a selection that is not collapsed or whose anchor block
\* is kept is returned as it is.
C6_SelectionClaimed ==
    Returned("applyContentWithSelection") =>
        /\ (/\ isCollapsed(call.selection)
            /\ Removed(AnchorIndex)
            /\ KeptBefore # {})
              => selection = AtEndOf(content[Predecessor].key)
        /\ (~isCollapsed(call.selection) \/ ~Removed(AnchorIndex))
              => selection = call.selection

\* C6 amended: the selection moves to the end of the last kept block that a
\* removed block followed in the old content; this is the kept block closest
\* before the anchor block when all blocks removed after that block form one
\* run with the anchor block.
C6_Selection ==
    Returned("applyContentWithSelection") =>
        /\ (/\ isCollapsed(call.selection)
            /\ Removed(AnchorIndex)
            /\ KeptBefore # {})
              => /\ KeptBeforeRemoved # {}
                 /\ \E i \in KeptBeforeRemoved :
                       /\ \A j \in KeptBeforeRemoved : j <= i
                       /\ selection = AtEndOf(content[i].key)
                 /\ OneRunAfterPredecessor
                       => selection = AtEndOf(content[Predecessor].key)
        /\ (~isCollapsed(call.selection) \/ ~Removed(AnchorIndex))
              => selection = call.selection

\* C6 witness: the anchor block and a block before the predecessor are
\* removed, and the selection has moved to the end of the predecessor, whose
\* text is not empty.
C6_Witness ==
    /\ Returned("applyContentWithSelection")
    /\ isCollapsed(call.selection)
    /\ Removed(AnchorIndex)
    /\ KeptBefore # {}
    /\ OneRunAfterPredecessor
    /\ \E i \in 1..(Predecessor - 1) : Removed(i)
    /\ selection = AtEndOf(content[Predecessor].key)
    /\ selection.anchorOffset > 0
    /\ selection # call.selection

\* C10: a collapsed selection whose anchor block is removed comes back with an
\* anchor key that nextContent does not have only if nextContent is empty or
\* has the keys of content.
C10_UnresolvedOnlyDegenerate ==
    (/\ Returned("applyContentWithSelection")
     /\ isCollapsed(call.selection)
     /\ Removed(AnchorIndex)
     /\ ~hasBlockForKey(nextContent, selection.anchorKey))
        => (nextContent = <<>> \/ keySeq(nextContent) = keySeq(content))

====
